---- MODULE Spec2Model ----
(***************************************************************************)
(* Model of the coffee-counter order queue of src/main.py: the sequential  *)
(* poker-card ticket allocator, the order store kept in the session state, *)
(* the pending-list and drink-summary projections, the completion routine  *)
(* with its daily served counter, and the page handlers that call them.    *)
(***************************************************************************)
EXTENDS Naturals, Integers, Sequences, FiniteSets, TLC

VARIABLES
    orders,           \* st.session_state.orders: list of order dicts
    card_counter,     \* st.session_state.card_counter
    selected_drinks,  \* st.session_state.selected_drinks: dict key -> qty
    daily_served,     \* st.session_state.daily_served: dict date -> cups
    now,              \* wall clock read by time.time()
    today,            \* calendar date read by datetime.datetime.now()
    last,             \* the store routine that ran last, its argument and its result
    issued,           \* history: identifiers returned by generate_order_number
    transitioned      \* history: per date, cups of orders that went pending -> completed

vars == <<orders, card_counter, selected_drinks, daily_served, now, today,
          last, issued, transitioned>>

----------------------------------------------------------------------------
(* Program constants.  The suit glyphs are written as ASCII letters.       *)

SUITS == <<"S", "H", "D", "C">>
NUMBERS == <<"A", "2", "3", "4", "5", "6", "7", "8", "9", "10", "J", "Q", "K">>
COFFEE_TYPES == <<"Latte", "Americano", "Cappuccino", "Mocha", "Long Black", "Fresh Milk">>

(* Bounds of the exploration.                                              *)
MaxQty == 2            \* largest quantity of one drink line in a selection
MaxCounter == 2        \* placements explored by Spec
MaxOrders == 2         \* store length explored by Spec
MaxTime == 1           \* clock readings 0..MaxTime
MaxDay == 1            \* dates 0..MaxDay
WrapCounter == 53      \* placements explored by SpecWrap (one past the 52-card cycle)
WrapOrders == 2        \* store length explored by SpecWrap
MaxServed == 4         \* served-today count up to which Spec completes orders
WrapServed == 55       \* served-today count up to which SpecWrap completes orders

(* The drink keys the explored sessions select from: f"Hot {coffee}" and   *)
(* f"Iced {coffee}" for coffee types of COFFEE_TYPES.                      *)
hot_key(coffee) == "Hot " \o coffee
iced_key(coffee) == "Iced " \o coffee
DrinkKeys == {hot_key(COFFEE_TYPES[1]), iced_key(COFFEE_TYPES[4])}
WrapKeys == {hot_key(COFFEE_TYPES[1])}

Dates == 0..MaxDay

----------------------------------------------------------------------------
(* Dictionaries are functions whose domain is the set of keys present.     *)

EmptyDict == [k \in {} |-> 0]

DictGet(d, k, default) == IF k \in DOMAIN d THEN d[k] ELSE default

DictSet(d, k, v) == [x \in DOMAIN d \cup {k} |-> IF x = k THEN v ELSE d[x]]

DictDel(d, k) == [x \in DOMAIN d \ {k} |-> d[x]]

RECURSIVE SumOver(_, _)
SumOver(d, keys) ==
    IF keys = {} THEN 0
    ELSE LET k == CHOOSE x \in keys : TRUE
         IN d[k] + SumOver(d, keys \ {k})

(* Variant: the number of item lines instead of the sum of quantities.     *)
CountLines(drinks) == Cardinality(DOMAIN drinks)

(* sum(drinks.values())                                                    *)
total_cups(drinks) == SumOver(drinks, DOMAIN drinks)

----------------------------------------------------------------------------
(* generate_order_number                                                   *)

(* Variant: a rank cycle one short of the rank list.                       *)
CardPositionShortCycle(current_counter) == current_counter % 12

card_position(current_counter) == current_counter % 13

(* Variant: the suit advancing with every card.                            *)
SuitPositionPerCard(current_counter) == current_counter % 4

suit_position(current_counter) == (current_counter \div 13) % 4

(* The list lookups raise IndexError outside the lists; the except branch  *)
(* then returns the '#n' label and the counter is not incremented.         *)
generate_order_number_raises(current_counter) ==
    \/ card_position(current_counter) + 1 \notin DOMAIN NUMBERS
    \/ suit_position(current_counter) + 1 \notin DOMAIN SUITS

generate_order_number_ret(current_counter) ==
    IF generate_order_number_raises(current_counter)
    THEN "#" \o ToString(current_counter + 1)
    ELSE SUITS[suit_position(current_counter) + 1]
            \o NUMBERS[card_position(current_counter) + 1]

generate_order_number_counter(current_counter) ==
    IF generate_order_number_raises(current_counter)
    THEN current_counter
    ELSE current_counter + 1

----------------------------------------------------------------------------
(* get_pending_orders: filter on status, then a stable sort by timestamp.  *)

IsPending(order) == order.status = "pending"

(* Variant: an insertion that puts an order before those of equal          *)
(* timestamp (a sort that is not stable).                                  *)
RECURSIVE InsertBeforeTies(_, _)
InsertBeforeTies(sorted, order) ==
    IF sorted = <<>> THEN <<order>>
    ELSE IF sorted[Len(sorted)].timestamp < order.timestamp
         THEN Append(sorted, order)
         ELSE Append(InsertBeforeTies(SubSeq(sorted, 1, Len(sorted) - 1), order),
                     sorted[Len(sorted)])

RECURSIVE InsertByTimestamp(_, _)
InsertByTimestamp(sorted, order) ==
    IF sorted = <<>> THEN <<order>>
    ELSE IF sorted[Len(sorted)].timestamp <= order.timestamp
         THEN Append(sorted, order)
         ELSE Append(InsertByTimestamp(SubSeq(sorted, 1, Len(sorted) - 1), order),
                     sorted[Len(sorted)])

RECURSIVE SortByTimestamp(_)
SortByTimestamp(list) ==
    IF list = <<>> THEN <<>>
    ELSE InsertByTimestamp(SortByTimestamp(SubSeq(list, 1, Len(list) - 1)),
                           list[Len(list)])

get_pending_orders_of(store) == SortByTimestamp(SelectSeq(store, IsPending))

get_pending_orders == get_pending_orders_of(orders)

(* get_drink_summary: fold of the pending orders' drinks into one dict.    *)
AddDrinks(drink_counts, drinks) ==
    [k \in DOMAIN drink_counts \cup DOMAIN drinks |->
        DictGet(drink_counts, k, 0) + DictGet(drinks, k, 0)]

RECURSIVE FoldDrinks(_)
FoldDrinks(pending_orders) ==
    IF pending_orders = <<>> THEN EmptyDict
    ELSE AddDrinks(FoldDrinks(SubSeq(pending_orders, 1, Len(pending_orders) - 1)),
                   pending_orders[Len(pending_orders)].drinks)

(* Variant: a summary folded over every stored order.                      *)
SummaryOfAllOrders(store) == FoldDrinks(store)

get_drink_summary_of(store) == FoldDrinks(get_pending_orders_of(store))

get_drink_summary == get_drink_summary_of(orders)

(* get_today_served                                                        *)
get_today_served == DictGet(daily_served, today, 0)

----------------------------------------------------------------------------
Init ==
    /\ orders = <<>>
    /\ card_counter = 0
    /\ selected_drinks = EmptyDict
    /\ daily_served = EmptyDict
    /\ now = 0
    /\ today = 0
    /\ last = [op |-> "init", id |-> "", ret |-> TRUE]
    /\ issued = <<>>
    /\ transitioned = [d \in Dates |-> 0]

----------------------------------------------------------------------------
(* Order page: the plus and minus buttons of one drink key.                *)

PlusButton(key, maxQty) ==
    LET current == DictGet(selected_drinks, key, 0) IN
    /\ current < maxQty
    /\ selected_drinks' = DictSet(selected_drinks, key, current + 1)
    /\ UNCHANGED <<orders, card_counter, daily_served, now, today, last, issued, transitioned>>

(* The minus button is rendered only when the current quantity is > 0; a   *)
(* quantity that reaches 0 is deleted from the selection.  (MinusKeepsZero *)
(* is the variant that leaves the zero entry in.)                          *)
MinusKeepsZero(selection, key, current) == DictSet(selection, key, current - 1)

MinusResult(selection, key, current) ==
    IF current - 1 = 0
    THEN DictDel(selection, key)
    ELSE DictSet(selection, key, current - 1)

MinusButton(key) ==
    LET current == DictGet(selected_drinks, key, 0) IN
    /\ current > 0
    /\ selected_drinks' = MinusResult(selected_drinks, key, current)
    /\ UNCHANGED <<orders, card_counter, daily_served, now, today, last, issued, transitioned>>

ClearAllButton ==
    /\ selected_drinks' = EmptyDict
    /\ UNCHANGED <<orders, card_counter, daily_served, now, today, last, issued, transitioned>>

----------------------------------------------------------------------------
(* add_order(drinks_dict): what it returns and what it does to the store.  *)

add_order_ret(drinks_dict) == drinks_dict # EmptyDict

NewOrder(order_number, drinks_dict, timestamp) ==
    [order_number |-> order_number,
     drinks       |-> drinks_dict,
     timestamp    |-> timestamp,
     status       |-> "pending"]

add_order(drinks_dict) ==
    IF ~add_order_ret(drinks_dict)
    THEN UNCHANGED <<orders, card_counter, issued>>
    ELSE /\ orders' = Append(orders,
                NewOrder(generate_order_number_ret(card_counter), drinks_dict, now))
         /\ card_counter' = generate_order_number_counter(card_counter)
         /\ issued' = Append(issued, generate_order_number_ret(card_counter))

(* A direct call of add_order with an arbitrary item map.                  *)
add_order_call(drinks_dict, maxCounter, maxOrders) ==
    /\ card_counter < maxCounter
    /\ Len(orders) < maxOrders
    /\ add_order(drinks_dict)
    /\ last' = [op |-> "add_order", id |-> "", ret |-> add_order_ret(drinks_dict)]
    /\ UNCHANGED <<selected_drinks, daily_served, now, today, transitioned>>

(* The PLACE ORDER button: add_order on the selection when it is not       *)
(* empty, the selection reset when add_order returned True; a warning and  *)
(* no change otherwise.                                                    *)
PlaceOrderButton(maxCounter, maxOrders) ==
    /\ card_counter < maxCounter
    /\ Len(orders) < maxOrders
    /\ IF selected_drinks # EmptyDict
       THEN /\ add_order(selected_drinks)
            /\ selected_drinks' = IF add_order_ret(selected_drinks)
                                  THEN EmptyDict ELSE selected_drinks
            /\ last' = [op |-> "add_order", id |-> "", ret |-> add_order_ret(selected_drinks)]
       ELSE UNCHANGED <<orders, card_counter, issued, selected_drinks, last>>
    /\ UNCHANGED <<daily_served, now, today, transitioned>>

----------------------------------------------------------------------------
(* mark_order_completed(order_number): the loop stops at the first order   *)
(* of the store whose order_number is equal to the argument.               *)

Matches(order, order_number) == order.order_number = order_number

HasMatch(store, order_number) ==
    \E i \in DOMAIN store : Matches(store[i], order_number)

FirstMatch(store, order_number) ==
    CHOOSE i \in DOMAIN store :
        /\ Matches(store[i], order_number)
        /\ \A j \in 1..(i - 1) : ~Matches(store[j], order_number)

(* Variant: the loop without its 'return True'.                            *)
NeverReportsFound(order_number) == FALSE

(* What the call returns: True from inside the loop, False after it.       *)
mark_order_completed_ret(order_number) == HasMatch(orders, order_number)

(* Variant: a status assignment that flips the status back and forth.      *)
ToggleStatus(order) ==
    [order EXCEPT !.status = IF @ = "completed" THEN "pending" ELSE "completed"]

(* Variant: the order rebuilt on completion without its items.             *)
CompletedWithoutDrinks(order) ==
    [order EXCEPT !.status = "completed", !.drinks = EmptyDict]

(* order['status'] = 'completed'                                           *)
SetCompleted(order) == [order EXCEPT !.status = "completed"]

(* Variant: the served map rebuilt with the entry of the current date only. *)
ServedTodayOnly(served, date, cups) ==
    [d \in {date} |-> DictGet(served, date, 0) + cups]

ServedAfter(served, date, cups) == DictSet(served, date, DictGet(served, date, 0) + cups)

mark_order_completed(order_number) ==
    IF HasMatch(orders, order_number)
    THEN LET i == FirstMatch(orders, order_number)
             cups == total_cups(orders[i].drinks)
         IN /\ orders' = [orders EXCEPT ![i] = SetCompleted(@)]
            /\ daily_served' = ServedAfter(daily_served, today, cups)
            /\ transitioned' =
                 IF orders[i].status = "pending"
                 THEN [transitioned EXCEPT ![today] = @ + cups]
                 ELSE transitioned
    ELSE UNCHANGED <<orders, daily_served, transitioned>>

(* A direct call of mark_order_completed with an arbitrary identifier.     *)
mark_order_completed_call(order_number, maxServed) ==
    /\ get_today_served < maxServed
    /\ mark_order_completed(order_number)
    /\ last' = [op |-> "mark_order_completed", id |-> order_number,
                ret |-> mark_order_completed_ret(order_number)]
    /\ UNCHANGED <<card_counter, selected_drinks, now, today, issued>>

(* Waiter page: the Served button of the i-th ticket of the pending list.  *)
ServedButton(i, maxServed) ==
    /\ i \in DOMAIN get_pending_orders
    /\ get_today_served < maxServed
    /\ LET order_num == get_pending_orders[i].order_number IN
        /\ mark_order_completed(order_num)
        /\ last' = [op |-> "mark_order_completed", id |-> order_num,
                    ret |-> mark_order_completed_ret(order_num)]
    /\ UNCHANGED <<card_counter, selected_drinks, now, today, issued>>

----------------------------------------------------------------------------
(* Barista page: the Clear Completed Orders button, rendered only when the *)
(* drink summary is not empty.                                             *)

NotCompleted(order) == order.status # "completed"

(* Variant: the comparison of the filter inverted.                         *)
IsCompleted(order) == order.status = "completed"
KeepCompleted(store) == SelectSeq(store, IsCompleted)

(* Variant: the oldest order dropped instead of the completed ones.        *)
DropOldestOrder(store) == IF store = <<>> THEN <<>> ELSE Tail(store)

ClearCompleted(store) == SelectSeq(store, NotCompleted)

(* Variant: the handler also restarting the ticket sequence.               *)
ClearCompletedResetsCounter ==
    /\ get_drink_summary # EmptyDict
    /\ orders' = SelectSeq(orders, NotCompleted)
    /\ card_counter' = 0
    /\ last' = [op |-> "clear_completed", id |-> "", ret |-> TRUE]
    /\ UNCHANGED <<selected_drinks, daily_served, now, today, issued, transitioned>>

ClearCompletedButton ==
    /\ get_drink_summary # EmptyDict
    /\ orders' = ClearCompleted(orders)
    /\ last' = [op |-> "clear_completed", id |-> "", ret |-> TRUE]
    /\ UNCHANGED <<card_counter, selected_drinks, daily_served, now, today,
                   issued, transitioned>>

----------------------------------------------------------------------------
(* The wall clock: time passes within a day, or into the next day.         *)

Tick ==
    /\ now < MaxTime
    /\ now' = now + 1
    /\ UNCHANGED <<orders, card_counter, selected_drinks, daily_served, today,
                   last, issued, transitioned>>

NewDay ==
    /\ today < MaxDay
    /\ today' = today + 1
    /\ UNCHANGED <<orders, card_counter, selected_drinks, daily_served, now,
                   last, issued, transitioned>>

----------------------------------------------------------------------------
(* Item maps a direct add_order call is tried with.                        *)
DrinkMaps == UNION {[keys -> 1..MaxQty] : keys \in SUBSET DrinkKeys}

(* Identifiers a direct mark_order_completed call is tried with.           *)
CallIds == {generate_order_number_ret(c) : c \in 0..MaxCounter}

Next ==
    \/ \E key \in DrinkKeys : PlusButton(key, MaxQty)
    \/ \E key \in DrinkKeys : MinusButton(key)
    \/ ClearAllButton
    \/ PlaceOrderButton(MaxCounter, MaxOrders)
    \/ \E d \in DrinkMaps : add_order_call(d, MaxCounter, MaxOrders)
    \/ \E id \in CallIds : mark_order_completed_call(id, MaxServed)
    \/ \E i \in 1..MaxOrders : ServedButton(i, MaxServed)
    \/ ClearCompletedButton
    \/ Tick
    \/ NewDay

Spec == Init /\ [][Next]_vars

----------------------------------------------------------------------------
(* The pages alone, over a full cycle of the 52 cards and one placement    *)
(* past it: one drink key, quantity 1, all on one date.                    *)

NextWrap ==
    \/ \E key \in WrapKeys : PlusButton(key, 1)
    \/ \E key \in WrapKeys : MinusButton(key)
    \/ ClearAllButton
    \/ PlaceOrderButton(WrapCounter, WrapOrders)
    \/ \E i \in 1..WrapOrders : ServedButton(i, WrapServed)
    \/ ClearCompletedButton
    \/ Tick

SpecWrap == Init /\ [][NextWrap]_vars

----------------------------------------------------------------------------
(* Vocabulary of the properties.                                           *)

PendingIndices(store, order_number) ==
    {i \in DOMAIN store : store[i].order_number = order_number
                          /\ store[i].status = "pending"}

NumPending(store) == Cardinality({i \in DOMAIN store : store[i].status = "pending"})

Min(S) == CHOOSE x \in S : \A y \in S : x <= y

----------------------------------------------------------------------------
(* C1: a call mark_order_completed(id) made when no stored order with      *)
(* order_number = id is pending returns False and leaves daily_served as   *)
(* it was (so a second call in a row does not count the cups again).       *)
C1_NotFoundWithoutPending ==
    [][\A id \in CallIds :
          (PendingIndices(orders, id) = {} /\ mark_order_completed_call(id, MaxServed))
              => (last'.ret = FALSE /\ daily_served' = daily_served)]_vars

(* C2: a Served press whose mark_order_completed call returns True flips   *)
(* exactly one order, the first pending one with that identifier, from     *)
(* pending to completed and leaves every other order as it was.            *)
C2_ExactlyFirstPendingFlips ==
    [][\A i \in 1..WrapOrders :
          (ServedButton(i, WrapServed) /\ last'.ret = TRUE)
              => LET id == get_pending_orders[i].order_number
                     first == Min(PendingIndices(orders, id))
                 IN /\ PendingIndices(orders, id) # {}
                    /\ orders' = [orders EXCEPT ![first].status = "completed"]
                    /\ NumPending(orders') = NumPending(orders) - 1]_vars

(* C3: while the date has not changed, get_today_served() is the sum of    *)
(* the cups of the orders that went from pending to completed, each        *)
(* counted once.                                                           *)
C3_ServedIsCupsOfCompletedOrders ==
    today = 0 => get_today_served = transitioned[0]

(* C4: get_pending_orders() is exactly the pending orders of the store in  *)
(* insertion order, one entry per pending order, also for orders of equal  *)
(* timestamp and for orders that share an order_number.                    *)
C4_PendingListIsFifo ==
    /\ get_pending_orders = SelectSeq(orders, IsPending)
    /\ Len(get_pending_orders) = NumPending(orders)

C4_Witness ==
    \E i, j \in DOMAIN get_pending_orders :
        /\ i < j
        /\ get_pending_orders[i].timestamp = get_pending_orders[j].timestamp
        /\ get_pending_orders[i].order_number = get_pending_orders[j].order_number
        /\ now > 0

(* C5: get_drink_summary() holds, for each drink key, the sum of that      *)
(* key's quantities over the pending orders and nothing else; a key with   *)
(* no pending quantity is absent.                                          *)
RECURSIVE PendingQuantity(_, _, _)
PendingQuantity(store, key, indices) ==
    IF indices = {} THEN 0
    ELSE LET i == CHOOSE x \in indices : TRUE
             qty == IF store[i].status = "pending" /\ key \in DOMAIN store[i].drinks
                    THEN store[i].drinks[key] ELSE 0
         IN qty + PendingQuantity(store, key, indices \ {i})

C5_SummaryIsPendingDemand ==
    \A key \in DrinkKeys \cup DOMAIN get_drink_summary :
        LET qty == PendingQuantity(orders, key, DOMAIN orders) IN
        /\ key \in DOMAIN get_drink_summary <=> qty > 0
        /\ key \in DOMAIN get_drink_summary => get_drink_summary[key] = qty

C5_Witness ==
    \E i, j \in DOMAIN orders : \E key \in DrinkKeys :
        /\ orders[i].status = "completed"
        /\ orders[j].status = "pending"
        /\ key \in DOMAIN orders[i].drinks
        /\ key \in DOMAIN orders[j].drinks
        /\ DOMAIN orders[j].drinks = DrinkKeys
        /\ last.op = "mark_order_completed"

(* C6: no two orders of the store, whatever their status, have the same    *)
(* order_number.                                                           *)
UniqueOrderNumbers ==
    \A i, j \in DOMAIN orders :
        i # j => orders[i].order_number # orders[j].order_number

C6_GloballyUniqueIds == UniqueOrderNumbers

(* C6 as amended: while at most 52 orders have been placed, no two orders  *)
(* of the store have the same order_number.                                *)
C6_UniqueWithinOneCycle ==
    card_counter <= Len(NUMBERS) * Len(SUITS) => UniqueOrderNumbers

C6_Witness ==
    /\ card_counter = Len(NUMBERS) * Len(SUITS)
    /\ Len(orders) = 2
    /\ orders[1].order_number = SUITS[1] \o NUMBERS[1]

(* C7: the c-th allocation (from 0) returns suit (c div 13) mod 4 with     *)
(* rank c mod 13 and advances card_counter by one; 52 consecutive          *)
(* allocations are pairwise distinct cards, an allocation repeats the one  *)
(* 52 earlier, and the '#n' label is never returned.                       *)
Cards == {SUITS[s] \o NUMBERS[n] : s \in DOMAIN SUITS, n \in DOMAIN NUMBERS}

C7_SequentialCycle ==
    /\ card_counter = Len(issued)
    /\ \A n \in DOMAIN issued :
          /\ issued[n] = SUITS[(((n - 1) \div 13) % 4) + 1] \o NUMBERS[((n - 1) % 13) + 1]
          /\ issued[n] \in Cards
          /\ n > 52 => issued[n] = issued[n - 52]
    /\ \A m, n \in DOMAIN issued : (m < n /\ n - m < 52) => issued[m] # issued[n]
    /\ Cardinality(Cards) = 52

C7_Witness ==
    /\ Len(issued) = 53
    /\ issued[53] = issued[1]
    /\ card_counter = 53

(* C8: add_order with an empty item map returns False and stores nothing;  *)
(* every stored order has at least one item line, every stored quantity    *)
(* and every quantity of the selection is at least 1.                      *)
PositiveQuantities(drinks) == \A key \in DOMAIN drinks : drinks[key] >= 1

C8_NoEmptyOrderNoZeroQuantity ==
    /\ [](/\ \A i \in DOMAIN orders :
                /\ DOMAIN orders[i].drinks # {}
                /\ PositiveQuantities(orders[i].drinks)
          /\ PositiveQuantities(selected_drinks))
    /\ [][add_order_call(EmptyDict, MaxCounter, MaxOrders)
            => (last'.ret = FALSE /\ orders' = orders /\ card_counter' = card_counter)]_vars

C8_Witness ==
    /\ last = [op |-> "add_order", id |-> "", ret |-> FALSE]
    /\ Len(orders) = 1
    /\ DOMAIN selected_drinks = DrinkKeys

(* C9: a completed order is never pending again, and a step that shortens  *)
(* the store removes completed orders only.                                *)
RECURSIVE DroppedOnlyCompleted(_, _)
DroppedOnlyCompleted(old, new) ==
    IF old = <<>> THEN new = <<>>
    ELSE \/ /\ new # <<>>
            /\ Head(old) = Head(new)
            /\ DroppedOnlyCompleted(Tail(old), Tail(new))
         \/ /\ Head(old).status = "completed"
            /\ DroppedOnlyCompleted(Tail(old), new)

C9_CompletedIsTerminal ==
    [][IF Len(orders') < Len(orders)
       THEN DroppedOnlyCompleted(orders, orders')
       ELSE \A i \in DOMAIN orders :
               /\ orders'[i].order_number = orders[i].order_number
               /\ orders[i].status = "completed" => orders'[i].status = "completed"]_vars

C9_Witness ==
    /\ last.op = "mark_order_completed"
    /\ last.ret = TRUE
    /\ transitioned[today] < get_today_served
    /\ \E i \in DOMAIN orders : orders[i].status = "completed"

(* C10: the Clear Completed Orders handler leaves exactly the pending      *)
(* orders, in their previous order, and changes neither card_counter nor   *)
(* daily_served nor what the three queries return.                         *)
C10_ClearRemovesExactlyCompleted ==
    [][ClearCompletedButton
        => /\ orders' = SelectSeq(orders, IsPending)
           /\ card_counter' = card_counter
           /\ daily_served' = daily_served
           /\ get_pending_orders' = get_pending_orders
           /\ get_drink_summary' = get_drink_summary
           /\ get_today_served' = get_today_served]_vars

C10_Witness ==
    /\ last.op = "clear_completed"
    /\ Len(orders) = 1
    /\ card_counter = 2
    /\ daily_served # EmptyDict

(* C11: a stored order keeps its order_number, drinks and timestamp for as *)
(* long as it is stored; only its status may change.                       *)
SameButStatus(before, after) ==
    /\ after.order_number = before.order_number
    /\ after.drinks = before.drinks
    /\ after.timestamp = before.timestamp

RECURSIVE KeptUnaltered(_, _)
KeptUnaltered(old, new) ==
    IF new = <<>> THEN TRUE
    ELSE /\ old # <<>>
         /\ \/ /\ SameButStatus(Head(old), Head(new))
               /\ KeptUnaltered(Tail(old), Tail(new))
            \/ KeptUnaltered(Tail(old), new)

C11_OrdersImmutableButStatus ==
    [][IF Len(orders') < Len(orders)
       THEN KeptUnaltered(orders, orders')
       ELSE \A i \in DOMAIN orders : SameButStatus(orders[i], orders'[i])]_vars

C11_Witness ==
    /\ Len(orders) = 2
    /\ orders[1].status = "completed"
    /\ orders[1].timestamp < now
    /\ selected_drinks # EmptyDict
    /\ selected_drinks # orders[1].drinks
    /\ last.op = "add_order"

(* C12: a Served press completes the latest-placed pending order that has  *)
(* the ticket's order_number.                                              *)
Max(S) == CHOOSE x \in S : \A y \in S : y <= x

C12_LatestPendingIsCompleted ==
    [][\A i \in 1..WrapOrders :
          ServedButton(i, WrapServed)
              => LET id == get_pending_orders[i].order_number
                     latest == Max(PendingIndices(orders, id))
                 IN orders' = [orders EXCEPT ![latest].status = "completed"]]_vars

(* C13: no entry of daily_served ever decreases or disappears; a step      *)
(* changes at most the entry of the current date, and only a completion    *)
(* that returned True changes it; when the date advances the map is kept   *)
(* and get_today_served() is 0.                                            *)
C13_ServedNeverDecreases ==
    [][/\ DOMAIN daily_served \subseteq DOMAIN daily_served'
       /\ \A d \in Dates :
             /\ DictGet(daily_served', d, 0) >= DictGet(daily_served, d, 0)
             /\ d # today => DictGet(daily_served', d, 0) = DictGet(daily_served, d, 0)
       /\ daily_served' # daily_served
             => (last'.op = "mark_order_completed" /\ last'.ret = TRUE /\ today' = today)
       /\ today' # today
             => (daily_served' = daily_served /\ get_today_served' = 0)]_vars

C13_Witness ==
    /\ today = 1
    /\ DictGet(daily_served, 0, 0) >= 2
    /\ get_today_served >= 1

(* C14: a call of mark_order_completed that returns False leaves the       *)
(* store, card_counter and daily_served exactly as they were.              *)
C14_NotFoundIsNoOp ==
    [][\A id \in CallIds :
          (mark_order_completed_call(id, MaxServed) /\ last'.ret = FALSE)
              => (/\ orders' = orders
                  /\ card_counter' = card_counter
                  /\ daily_served' = daily_served)]_vars

C14_Witness ==
    /\ last.op = "mark_order_completed"
    /\ last.ret = FALSE
    /\ \E i \in DOMAIN orders : orders[i].status = "pending"
    /\ \E i \in DOMAIN orders : orders[i].status = "completed"
    /\ daily_served # EmptyDict

(* C15: right after the Clear Completed Orders handler ran, the button is  *)
(* still there and running the handler again gives the same store (the     *)
(* handler writes neither card_counter nor daily_served).                  *)
C15_ClearIsIdempotent ==
    [][ClearCompletedButton
        => /\ get_drink_summary' # EmptyDict
           /\ ClearCompleted(orders') = orders'
           /\ card_counter' = card_counter
           /\ daily_served' = daily_served]_vars

C15_Witness ==
    /\ last.op = "clear_completed"
    /\ Len(orders) = 1
    /\ Len(issued) = 2
    /\ orders[1].order_number = issued[2]

(* C16: from the initial state, after placing one order of 2 Hot Latte and *)
(* 1 Iced Mocha the pending list is that one order with 3 cups and the     *)
(* drink summary is its item map; completing it by its identifier leaves   *)
(* an empty summary, an empty pending list and 3 cups served today.        *)
ScenarioItems ==
    [key \in {hot_key(COFFEE_TYPES[1]), iced_key(COFFEE_TYPES[4])} |->
        IF key = hot_key(COFFEE_TYPES[1]) THEN 2 ELSE 1]

ScenarioPlaced ==
    /\ card_counter = 1
    /\ Len(orders) = 1
    /\ orders[1].drinks = ScenarioItems
    /\ orders[1].status = "pending"
    /\ daily_served = EmptyDict

C16_PlaceThenCompleteScenario ==
    /\ [](ScenarioPlaced
            => /\ Len(get_pending_orders) = 1
               /\ get_pending_orders[1] = orders[1]
               /\ total_cups(get_pending_orders[1].drinks) = 3
               /\ get_drink_summary = ScenarioItems)
    /\ [][(/\ ScenarioPlaced
           /\ \/ mark_order_completed_call(orders[1].order_number, MaxServed)
              \/ ServedButton(1, MaxServed))
            => /\ get_drink_summary' = EmptyDict
               /\ get_pending_orders' = <<>>
               /\ get_today_served' = 3]_vars

C16_Witness ==
    /\ last = [op |-> "mark_order_completed", id |-> SUITS[1] \o NUMBERS[1], ret |-> TRUE]
    /\ card_counter = 1
    /\ Len(orders) = 1
    /\ orders[1].drinks = ScenarioItems
    /\ get_today_served = 3
    /\ get_drink_summary = EmptyDict

(* C17: a press of Served on the first ticket of the pending list takes    *)
(* that ticket off the list (so that pressing on empties the list).        *)
C17_PressRemovesFirstTicket ==
    [][ServedButton(1, WrapServed)
        => Len(get_pending_orders') = Len(get_pending_orders) - 1]_vars

(* C18: card_counter is the number of orders placed so far; it changes     *)
(* only in a successful add_order, by one, together with the append of one *)
(* pending order at the end of the store; a rejected add_order changes     *)
(* neither, and so do completions and clear-completed.                     *)
PlacedOne ==
    /\ card_counter' = card_counter + 1
    /\ Len(orders') = Len(orders) + 1
    /\ SubSeq(orders', 1, Len(orders)) = orders
    /\ orders'[Len(orders')].status = "pending"

C18_CounterCountsPlacements ==
    /\ [](card_counter = Len(issued))
    /\ [][/\ (card_counter' # card_counter \/ Len(orders') > Len(orders))
                => (PlacedOne /\ last'.op = "add_order" /\ last'.ret = TRUE)
          /\ \A d \in DrinkMaps :
                add_order_call(d, MaxCounter, MaxOrders)
                    => IF d = EmptyDict
                       THEN /\ last'.ret = FALSE
                            /\ orders' = orders
                            /\ card_counter' = card_counter
                       ELSE last'.ret = TRUE /\ PlacedOne
          /\ (PlaceOrderButton(MaxCounter, MaxOrders) /\ selected_drinks # EmptyDict)
                => PlacedOne]_vars

C18_Witness ==
    /\ last.op = "clear_completed"
    /\ card_counter = 2
    /\ Len(orders) = 1
    /\ orders[1].order_number = generate_order_number_ret(1)
    /\ selected_drinks # EmptyDict

(* C19: whenever the store holds a completed order, the Clear Completed    *)
(* Orders handler can run.                                                 *)
C19_ClearAlwaysAvailable ==
    (\E i \in DOMAIN orders : orders[i].status = "completed")
        => ENABLED ClearCompletedButton

====
